---- MODULE Spec2Model ----
(***************************************************************************)
(* Turn-based speech translation relay of coversaflow-ai: the translation  *)
(* hook (useTranslation), the synthesis hook (useElevenLabsTTS) and the    *)
(* relay components SingleDeviceBridge and PhoneCallTranslator that wire   *)
(* them to the speech capture adapter.                                      *)
(*                                                                         *)
(* Text is a sequence of one-character strings, so that trim(), regex      *)
(* replacement and string concatenation are computed, not assumed.         *)
(* Confidence values are percentages (1.0 is 100, 0.9 is 90).              *)
(***************************************************************************)
EXTENDS Integers, Sequences, FiniteSets, TLC

VARIABLES
  now,            \* Date.now(), in milliseconds
  rec,            \* useSpeechRecognition: [transcript, finalTranscript, isListening, confidence, error]
  isTranslating,  \* useTranslation: isTranslating
  calls,          \* translate() invocations made directly on the hook
  tts,            \* useElevenLabsTTS: [isPlaying, currentAudio, error]
  audio,          \* the HTMLAudioElements created so far, by creation order
  hs,             \* handleNewSpeech invocations that passed their guard
  sdb,            \* SingleDeviceBridge component state
  pct,            \* PhoneCallTranslator component state
  cb,             \* ConferenceBridge component state
  phone,          \* usePhoneCallIntegration: callState, refs, media streams
  ev,             \* history of the current final-transcript event
  browserSpeech,  \* texts handed to window.speechSynthesis.speak
  demo,           \* CallDemo page, DemoLimiter and the browser storage it uses
  tf              \* responses of the detect-gender-and-tts function

vars == <<now, rec, isTranslating, calls, tts, audio, hs, sdb, pct, cb,
          phone, ev, browserSpeech, demo, tf>>

----------------------------------------------------------------------------
(* Bounds of the model *)

MaxCalls == 2
MaxEvents == 1
MaxFinals == 2
MaxDays == 2

----------------------------------------------------------------------------
(* Texts and languages *)

tEmpty == <<>>
tBlank == <<" ">>
tHi == <<"h", "i">>
tHello == <<"H", "e", "l", "l", "o">>
tHola == <<"h", "o", "l", "a">>
tBonjour == <<"b", "o", "n", "j", "o", "u", "r">>

Langs == {"en", "es", "fr"}
\* the languages picked in the selects ("es" is the default of the second)
SelectLangs == {"en", "fr"}

LangChars(l) ==
  CASE l = "en" -> <<"e", "n">>
    [] l = "es" -> <<"e", "s">>
    [] l = "fr" -> <<"f", "r">>
    [] l = "pt-BR" -> <<"p", "t", "-", "B", "R">>
    [] OTHER -> <<"?">>

\* String.prototype.trim() leaves nothing: the text is empty or whitespace
Blank(text) == \A i \in 1..Len(text) : text[i] = " "

ToLowerChar(c) ==
  CASE c = "H" -> "h"
    [] c = "E" -> "e"
    [] c = "N" -> "n"
    [] c = "S" -> "s"
    [] c = "F" -> "f"
    [] c = "R" -> "r"
    [] c = "B" -> "b"
    [] OTHER -> c

ToUpperChar(c) ==
  CASE c = "e" -> "E"
    [] c = "n" -> "N"
    [] c = "s" -> "S"
    [] c = "f" -> "F"
    [] c = "r" -> "R"
    [] c = "p" -> "P"
    [] c = "t" -> "T"
    [] c = "h" -> "H"
    [] OTHER -> c

\* toUpperCase left out
ToUpperCase_AsIs(s) == s

ToUpperCase(s) == [i \in 1..Len(s) |-> ToUpperChar(s[i])]

\* the pattern /pat/i matches text at position i
MatchAt(text, i, pat) ==
  /\ i + Len(pat) - 1 <= Len(text)
  /\ \A k \in 1..Len(pat) : ToLowerChar(text[i + k - 1]) = pat[k]

RECURSIVE ReplaceFrom(_, _, _, _)
ReplaceFrom(text, i, pat, rep) ==
  IF i > Len(text) THEN <<>>
  ELSE IF MatchAt(text, i, pat)
       THEN rep \o ReplaceFrom(text, i + Len(pat), pat, rep)
       ELSE <<text[i]>> \o ReplaceFrom(text, i + 1, pat, rep)

\* text.replace(/pat/gi, rep); the receiver is evaluated once
Replace(text, pat, rep) ==
  CHOOSE r \in {ReplaceFrom(t, 1, pat, rep) : t \in {text}} : TRUE

\* text.replace(...).replace(...) for the pairs of table, in order
RECURSIVE ReplaceChain(_, _)
ReplaceChain(text, table) ==
  IF table = <<>> THEN text
  ELSE CHOOSE r \in {ReplaceChain(Replace(t, tb[1][1], tb[1][2]), Tail(tb)) :
                       t \in {text}, tb \in {table}} : TRUE

S_hello == <<"h", "e", "l", "l", "o">>
S_hi == <<"h", "i">>
S_hola == <<"h", "o", "l", "a">>
S_ola == <<"o", "l", "á">>
S_how_are_you == <<"h", "o", "w", " ", "a", "r", "e", " ", "y", "o", "u">>
S_como_estas == <<"c", "ó", "m", "o", " ", "e", "s", "t", "á", "s">>
S_como_voce_esta ==
  <<"c", "o", "m", "o", " ", "v", "o", "c", "ê", " ", "e", "s", "t", "á">>
S_thank_you == <<"t", "h", "a", "n", "k", " ", "y", "o", "u">>
S_gracias == <<"g", "r", "a", "c", "i", "a", "s">>
S_obrigado == <<"o", "b", "r", "i", "g", "a", "d", "o">>
S_good_morning ==
  <<"g", "o", "o", "d", " ", "m", "o", "r", "n", "i", "n", "g">>
S_buenos_dias == <<"b", "u", "e", "n", "o", "s", " ", "d", "í", "a", "s">>
S_bom_dia == <<"b", "o", "m", " ", "d", "i", "a">>
S_good_afternoon ==
  <<"g", "o", "o", "d", " ", "a", "f", "t", "e", "r", "n", "o", "o", "n">>
S_buenas_tardes ==
  <<"b", "u", "e", "n", "a", "s", " ", "t", "a", "r", "d", "e", "s">>
S_goodbye == <<"g", "o", "o", "d", "b", "y", "e">>
S_adios == <<"a", "d", "i", "ó", "s">>
S_tchau == <<"t", "c", "h", "a", "u">>

EnEsTable ==
  << <<S_hello, S_hola>>, <<S_hi, S_hola>>, <<S_how_are_you, S_como_estas>>,
     <<S_thank_you, S_gracias>>, <<S_good_morning, S_buenos_dias>>,
     <<S_good_afternoon, S_buenas_tardes>>, <<S_goodbye, S_adios>> >>

EnPtBrTable ==
  << <<S_hello, S_ola>>, <<S_hi, S_ola>>, <<S_how_are_you, S_como_voce_esta>>,
     <<S_thank_you, S_obrigado>>, <<S_good_morning, S_bom_dia>>,
     <<S_goodbye, S_tchau>> >>

EsEnTable ==
  << <<S_hola, S_hello>>, <<S_como_estas, S_how_are_you>>,
     <<S_gracias, S_thank_you>>, <<S_buenos_dias, S_good_morning>>,
     <<S_adios, S_goodbye>> >>

----------------------------------------------------------------------------
(* useTranslation.translate *)

ConfIdentity == 100
ConfPrimary == 90
ConfFallback == 70

TResult(text, from, to, conf) ==
  [translatedText |-> text, sourceLanguage |-> from, targetLanguage |-> to,
   confidence |-> conf]

NoResult == TResult(<<>>, "", "", 0)

\* A catch block that reports more confidence than the provider tier
Fallback_Overconfident(text, from, to) ==
  TResult(<<"[">> \o ToUpperCase(LangChars(to)) \o <<"]", " ">> \o text,
          from, to, ConfPrimary + 5)

\* the catch block: phrase substitution, else the marked passthrough
Fallback(text, from, to) ==
  LET translatedText ==
        IF from = "en" /\ to = "es" THEN ReplaceChain(text, EnEsTable)
        ELSE IF from = "en" /\ to = "pt-BR" THEN ReplaceChain(text, EnPtBrTable)
        ELSE IF from = "es" /\ to = "en" THEN ReplaceChain(text, EsEnTable)
        ELSE <<"[">> \o ToUpperCase(LangChars(to)) \o <<"]", " ">> \o text
  IN  TResult(translatedText, from, to, ConfFallback)

\* What the provider call can do: fetch rejects, the status is not 2xx,
\* response.json() rejects, the payload is null (data[0] throws), the payload
\* has no first segment (data[0]?.[0]?.[0] is undefined or ""), or it has one.
FailureKinds == {"network_error", "non_2xx", "bad_json", "null_payload"}
ProviderTexts == {tHola}
ProviderOutcomes ==
  [kind : FailureKinds, text : {tEmpty}]
    \cup [kind : {"empty"}, text : {tEmpty}]
    \cup [kind : {"ok"}, text : ProviderTexts]

\* translate without the from === to shortcut
TranslateSync_NoShortcut(text, from, to) ==
  IF Blank(text) THEN [status |-> "rejected", result |-> NoResult]
  ELSE [status |-> "pending", result |-> NoResult]

\* translate before its first await: "rejected", "resolved" or "pending"
TranslateSync(text, from, to) ==
  IF Blank(text) THEN [status |-> "rejected", result |-> NoResult]
  ELSE IF from = to
       THEN [status |-> "resolved", result |-> TResult(text, from, to, ConfIdentity)]
       ELSE [status |-> "pending", result |-> NoResult]

TranslateOnResponse_Rethrow(text, from, to, out) ==
  IF out.kind \in FailureKinds
  THEN [status |-> "rejected", result |-> NoResult]
  ELSE [status |-> "resolved",
        result |-> TResult(IF out.text # <<>> THEN out.text ELSE text,
                           from, to, ConfPrimary)]

\* translate after the provider call settled
TranslateOnResponse(text, from, to, out) ==
  IF out.kind \in FailureKinds
  THEN [status |-> "resolved", result |-> Fallback(text, from, to)]
  ELSE [status |-> "resolved",
        result |-> TResult(IF out.text # <<>> THEN out.text ELSE text,
                           from, to, ConfPrimary)]

----------------------------------------------------------------------------
(* useTranslation.translate, LibreTranslate variant *)

ConfMock == 80

\* mockTranslations[from]?.[to]; <<>> stands for undefined
MockTranslations(from, to) ==
  LET
    demo_es == <<"H", "o", "l", "a", ",", " ", "e", "s", "t", "o", " ",
      "e", "s", " ", "u", "n", "a", " ", "t", "r", "a", "d", "u", "c", "c",
      "i", "ó", "n", " ", "d", "e", " ", "d", "e", "m", "o", "s", "t", "r",
      "a", "c", "i", "ó", "n", ".">>
    demo_fr == <<"B", "o", "n", "j", "o", "u", "r", ",", " ", "c", "e",
      "c", "i", " ", "e", "s", "t", " ", "u", "n", "e", " ", "t", "r", "a",
      "d", "u", "c", "t", "i", "o", "n", " ", "d", "e", " ", "d", "é", "m",
      "o", "n", "s", "t", "r", "a", "t", "i", "o", "n", ".">>
    demo_de == <<"H", "a", "l", "l", "o", ",", " ", "d", "a", "s", " ",
      "i", "s", "t", " ", "e", "i", "n", "e", " ", "D", "e", "m", "o", "-",
      "Ü", "b", "e", "r", "s", "e", "t", "z", "u", "n", "g", ".">>
    demo_en == <<"H", "e", "l", "l", "o", ",", " ", "t", "h", "i", "s",
      " ", "i", "s", " ", "a", " ", "d", "e", "m", "o", " ", "t", "r", "a",
      "n", "s", "l", "a", "t", "i", "o", "n", ".">>
  IN  CASE from = "en" /\ to = "es" -> demo_es
        [] from = "en" /\ to = "fr" -> demo_fr
        [] from = "en" /\ to = "de" -> demo_de
        [] from = "es" /\ to = "en" -> demo_en
        [] from = "es" /\ to = "fr" -> demo_fr
        [] from = "fr" /\ to = "en" -> demo_en
        [] from = "fr" /\ to = "es" -> demo_es
        [] OTHER -> <<>>

\* the catch block: the mock translation of the pair, else the marked text
LibreFallback(text, from, to) ==
  LET
    demo_from == <<"[", "D", "e", "m", "o", " ", "t", "r", "a", "n", "s",
      "l", "a", "t", "i", "o", "n", " ", "f", "r", "o", "m", " ">>
    mockResult ==
      IF MockTranslations(from, to) # <<>> THEN MockTranslations(from, to)
      ELSE demo_from \o LangChars(from) \o <<" ", "t", "o", " ">>
             \o LangChars(to) \o <<"]", ":", " ">> \o text
  IN  TResult(mockResult, from, to, ConfMock)

\* translate after the provider call settled
LibreOnResponse(text, from, to, out) ==
  IF out.kind \in FailureKinds
  THEN [status |-> "resolved", result |-> LibreFallback(text, from, to)]
  ELSE [status |-> "resolved",
        result |-> TResult(IF out.text # <<>> THEN out.text ELSE text,
                           from, to, ConfPrimary)]

\* the two hooks named useTranslation
Variants == {"google", "libre"}

OnResponse(variant, text, from, to, out) ==
  IF variant = "libre" THEN LibreOnResponse(text, from, to, out)
  ELSE TranslateOnResponse(text, from, to, out)

----------------------------------------------------------------------------
(* DemoLimiter. localStorage and sessionStorage hold the usage count per   *)
(* day for the one fingerprint of this browser; the IndexedDB copy is      *)
(* written and never read.                                                  *)

MAX_DAILY_DEMOS == 3

\* A limit check that compares with > instead of >=
CanUseDemo_OneTooMany(st) ==
  LET usage == IF st.local.present THEN st.local.usage
               ELSE IF st.session.present THEN st.session.usage
               ELSE [d \in 1..MaxDays |-> 0]
      todayUsage == usage[st.today]
  IN  IF todayUsage > MAX_DAILY_DEMOS THEN [allowed |-> FALSE, remaining |-> 0]
      ELSE [allowed |-> TRUE,
            remaining |-> IF MAX_DAILY_DEMOS - todayUsage > 0
                          THEN MAX_DAILY_DEMOS - todayUsage ELSE 0]

\* canUseDemo with getDemoUsage: localStorage first, then sessionStorage
CanUseDemo(st) ==
  LET usage == IF st.local.present THEN st.local.usage
               ELSE IF st.session.present THEN st.session.usage
               ELSE [d \in 1..MaxDays |-> 0]
      todayUsage == usage[st.today]
      remaining == IF MAX_DAILY_DEMOS - todayUsage > 0
                   THEN MAX_DAILY_DEMOS - todayUsage ELSE 0
  IN  IF todayUsage >= MAX_DAILY_DEMOS THEN [allowed |-> FALSE, remaining |-> 0]
      ELSE [allowed |-> TRUE, remaining |-> remaining]

\* trackDemoUsage: read, increment today's count, write both storages
TrackDemoUsage(st) ==
  LET usage == IF st.local.present THEN st.local.usage
               ELSE IF st.session.present THEN st.session.usage
               ELSE [d \in 1..MaxDays |-> 0]
      stored == [present |-> TRUE,
                 usage |-> [usage EXCEPT ![st.today] = @ + 1]]
  IN  [st EXCEPT !.local = stored, !.session = stored]

\* CallDemo mounts: useState initial values, then the mount effect
DemoMount(st) ==
  LET limitCheck == CanUseDemo(st)
  IN  [st EXCEPT !.demoLimitInfo = limitCheck,
                 !.currentScreen = IF limitCheck.allowed THEN "intro" ELSE "blocked"]

\* The page is opened with empty storage on the first day; entered counts
\* the times the demo screen was entered, by day
DemoInit ==
  DemoMount([local |-> [present |-> FALSE, usage |-> [d \in 1..MaxDays |-> 0]],
             session |-> [present |-> FALSE, usage |-> [d \in 1..MaxDays |-> 0]],
             today |-> 1, currentScreen |-> "intro",
             demoLimitInfo |-> [allowed |-> FALSE, remaining |-> 0],
             demoStart |-> FALSE,
             entered |-> [d \in 1..MaxDays |-> 0]])

----------------------------------------------------------------------------
(* Initial values of the hooks and components *)

NoAudio == 0

\* lang is the language tag recognition is armed with, heardIn the tag the
\* last final transcript was recognised in
RecInit ==
  [transcript |-> <<>>, finalTranscript |-> <<>>, isListening |-> FALSE,
   confidence |-> 0, error |-> "none", lang |-> "", heardIn |-> ""]

TtsInit == [isPlaying |-> FALSE, currentAudio |-> NoAudio, error |-> "none"]

SdbInit ==
  [translations |-> <<>>, languageA |-> "en", languageB |-> "es",
   isSetupComplete |-> FALSE, permissionsGranted |-> FALSE,
   currentDirection |-> "a_to_b", lastProcessedTranscript |-> <<>>,
   isActive |-> FALSE]

PctInit ==
  [translations |-> <<>>, callerLanguage |-> "en", receiverLanguage |-> "es",
   isSetupComplete |-> FALSE, permissionsGranted |-> FALSE]

CbInit ==
  [translations |-> <<>>, personALanguage |-> "en", personBLanguage |-> "es",
   isSetupComplete |-> FALSE, permissionsGranted |-> FALSE,
   currentSpeaker |-> "null", lastProcessedTranscript |-> <<>>,
   bridgeActive |-> FALSE]

\* streams are the MediaStreams getUserMedia handed to startCallRecording,
\* starts its invocations; callerAudio and recorder are indexes into
\* streams (0: undefined / null)
PhoneInit ==
  [isActive |-> FALSE, callerAudio |-> 0, recorder |-> 0,
   audioContext |-> FALSE, isSupported |-> FALSE, supportChecked |-> FALSE,
   error |-> "none", streams |-> <<>>, starts |-> <<>>]

EvInit ==
  [n |-> 0, delivered |-> FALSE, redelivered |-> FALSE, issued |-> 0,
   fresh |-> FALSE]

Init ==
  /\ now = 0
  /\ rec = RecInit
  /\ isTranslating = FALSE
  /\ calls = <<>>
  /\ tts = TtsInit
  /\ audio = <<>>
  /\ hs = <<>>
  /\ sdb = SdbInit
  /\ pct = PctInit
  /\ cb = CbInit
  /\ phone = PhoneInit
  /\ ev = EvInit
  /\ browserSpeech = <<>>
  /\ demo = DemoInit
  /\ tf = <<>>

----------------------------------------------------------------------------
(* SpecTranslate: translate() called directly, calls may overlap *)

TranslateTexts == {tEmpty, tBlank, tHello, tBonjour}
TranslatePairs ==
  {<<"en", "es">>, <<"fr", "en">>, <<"en", "pt-BR">>, <<"en", "en">>,
   <<"fr", "fr">>}
NoOutcome == [kind |-> "none", text |-> tEmpty]

\* translate(text, from, to) up to its first await; the calls of one
\* behaviour are made on one hook instance, that of the first call
T_Call(variant, text, from, to) ==
  LET sync == TranslateSync(text, from, to)
      it == IF sync.status = "pending" THEN TRUE ELSE isTranslating
  IN  /\ Len(calls) < MaxCalls
      /\ calls # <<>> => variant = calls[1].variant
      /\ isTranslating' = it
      /\ calls' = Append(calls,
           [variant |-> variant, text |-> text, from |-> from, to |-> to,
            status |-> sync.status,
            result |-> sync.result, dispatched |-> sync.status = "pending",
            itBefore |-> isTranslating, itAfter |-> it, out |-> NoOutcome])
      /\ UNCHANGED <<now, rec, tts, audio, hs, sdb, pct, cb, phone, ev, browserSpeech,
                     demo, tf>>

\* the provider call of calls[i] settles; try/catch/finally run to the end
T_Respond(i, out) ==
  LET c == calls[i]
      r == OnResponse(c.variant, c.text, c.from, c.to, out)
  IN  /\ c.status = "pending"
      /\ isTranslating' = FALSE
      /\ calls' = [calls EXCEPT ![i] =
           [c EXCEPT !.status = r.status, !.result = r.result, !.out = out]]
      /\ UNCHANGED <<now, rec, tts, audio, hs, sdb, pct, cb, phone, ev, browserSpeech,
                     demo, tf>>

NextTranslate ==
  \/ \E variant \in Variants, text \in TranslateTexts, p \in TranslatePairs :
       T_Call(variant, text, p[1], p[2])
  \/ \E i \in 1..Len(calls), out \in ProviderOutcomes : T_Respond(i, out)

SpecTranslate == Init /\ [][NextTranslate]_vars

\* C9: a settled translate call was rejected exactly when its text is blank,
\* and a rejected call reached no provider and left isTranslating as it was;
\* every non-blank call that settled resolved with a result, whatever the
\* provider did.
C9_RejectsExactlyBlank ==
  \A i \in 1..Len(calls) :
    LET c == calls[i]
    IN  /\ (c.status = "rejected") <=> Blank(c.text)
        /\ c.status = "rejected" => ~c.dispatched /\ c.itAfter = c.itBefore
        /\ c.status = "resolved" /\ c.dispatched =>
             c.result.translatedText # <<>> /\ c.out.kind # "none"

C9_Witness ==
  \E i, j \in 1..Len(calls) :
    /\ calls[i].status = "rejected" /\ calls[i].itBefore
    /\ calls[j].status = "resolved" /\ calls[j].out.kind = "network_error"

\* C10: a successful provider response with an empty translation makes
\* translate return the fallback chain's output with the fallback confidence.
C10_EmptyIsFallback ==
  \A i \in 1..Len(calls) :
    LET c == calls[i]
    IN  c.status = "resolved" /\ c.out.kind = "empty" =>
          /\ c.result = Fallback(c.text, c.from, c.to)
          /\ c.result.confidence # ConfPrimary

----------------------------------------------------------------------------
(* The hooks as functions of the world w, a record of the variables that   *)
(* the relay components and their hooks write.                              *)

World ==
  [now |-> now, rec |-> rec, isTranslating |-> isTranslating, tts |-> tts, audio |-> audio,
   hs |-> hs, sdb |-> sdb, pct |-> pct, cb |-> cb, phone |-> phone, ev |-> ev,
   browserSpeech |-> browserSpeech]

\* the state updates of one handler run take effect together; the world is
\* computed once and bound to v
Commit(w) ==
  \E v \in {w} :
    /\ rec' = v.rec
    /\ isTranslating' = v.isTranslating
    /\ tts' = v.tts
    /\ audio' = v.audio
    /\ hs' = v.hs
    /\ sdb' = v.sdb
    /\ pct' = v.pct
    /\ cb' = v.cb
    /\ phone' = v.phone
    /\ ev' = v.ev
    /\ browserSpeech' = v.browserSpeech
    /\ now' = v.now
    /\ UNCHANGED <<calls, demo, tf>>

\* Date.now() is read: it returns the millisecond of the last reading or a
\* later one
Millis == {0, 1}
DateNow(w, dt) == [w EXCEPT !.now = @ + dt]

\* languages.find(l => l.code === code)?.speechLang || "en-US"
SpeechLang(code) ==
  CASE code = "en" -> "en-US"
    [] code = "es" -> "es-ES"
    [] code = "fr" -> "fr-FR"
    [] OTHER -> "en-US"

\* Speech capture adapter: startListening(languageTag, continuous) arms
\* recognition, or fails and leaves listening false with an error surfaced.
StartListening(w, languageTag, continuous, ok) ==
  IF ok
  THEN [w EXCEPT !.rec.isListening = TRUE, !.rec.error = "none",
                 !.rec.lang = languageTag]
  ELSE [w EXCEPT !.rec.isListening = FALSE, !.rec.error = "UNAVAILABLE",
                 !.rec.lang = ""]

StopListening(w) == [w EXCEPT !.rec.isListening = FALSE, !.rec.lang = ""]

\* A final transcript event (text, confidence); a single-shot recognition
\* stops itself after it, a continuous one keeps listening.
OnFinalTranscript(w, text, conf, continuous) ==
  [w EXCEPT !.rec.transcript = text, !.rec.finalTranscript = text,
            !.rec.confidence = conf, !.rec.heardIn = w.rec.lang,
            !.rec.isListening = IF continuous THEN @ ELSE FALSE,
            !.rec.lang = IF continuous THEN @ ELSE ""]

\* The engine reports an error while armed (no speech, aborted): the
\* adapter surfaces it and leaves listening false; it does not retry.
OnCaptureError(w, err) ==
  [w EXCEPT !.rec.isListening = FALSE, !.rec.error = err, !.rec.lang = ""]

ResetTranscript(w) ==
  [w EXCEPT !.rec.transcript = <<>>, !.rec.finalTranscript = <<>>,
            !.rec.heardIn = ""]

\* useElevenLabsTTS.stopSpeaking as captured by a closure whose render saw
\* currentAudio = clAudio; an element is "starting" (play() pending),
\* "playing" or "stopped" (paused, ended or failed)
StopSpeaking(w, clAudio) ==
  LET paused == IF clAudio # NoAudio
                THEN [w.audio EXCEPT ![clAudio] = "stopped"]
                ELSE w.audio
      cur == IF clAudio # NoAudio THEN NoAudio ELSE w.tts.currentAudio
  IN  [w EXCEPT !.audio = paused,
                !.tts = [@ EXCEPT !.currentAudio = cur, !.isPlaying = FALSE]]

\* speak({text, language}) of handler h up to its await of the provider,
\* which is sent the request body {text, language}; with blank text speak
\* returns at once and the handler stays where it is
SpeakBegin(w, h, text, language) ==
  IF Blank(text) THEN w
  ELSE LET w1 == StopSpeaking([w EXCEPT !.tts.error = "none"], w.hs[h].clAudio)
       IN  [w1 EXCEPT !.tts.isPlaying = TRUE, !.hs[h].pc = "tts",
                      !.hs[h].spoke = TRUE,
                      !.hs[h].request = [text |-> text, language |-> language]]

TtsOutcomes == {"error", "no_audio", "ok"}

\* speak after supabase.functions.invoke settled: the catch block absorbs a
\* provider error or a missing audioContent, otherwise the audio element is
\* created, stored and play() is awaited
SpeakOnProvider(w, h, out) ==
  IF out \in {"error", "no_audio"}
  THEN [w EXCEPT !.tts.error = "error", !.tts.isPlaying = FALSE,
                 !.hs[h].pc = "spoken", !.hs[h].ttsFailed = TRUE]
  ELSE LET a == Len(w.audio) + 1
       IN  [w EXCEPT !.audio = Append(@, "starting"),
                     !.tts.currentAudio = a,
                     !.hs[h].pc = "play", !.hs[h].audio = a]

\* speak after audio.play() settled; a rejection is absorbed by the catch
SpeakOnPlay(w, h, ok) ==
  LET a == w.hs[h].audio
  IN  IF ok
      THEN [w EXCEPT !.audio[a] = "playing", !.hs[h].pc = "spoken"]
      ELSE [w EXCEPT !.audio[a] = "stopped",
                     !.tts.error = "error", !.tts.isPlaying = FALSE,
                     !.hs[h].pc = "spoken", !.hs[h].ttsFailed = TRUE]

SpeakSettles_Rethrows(ttsFailed) == IF ttsFailed THEN "rejected" ELSE "resolved"

\* how the promise returned by speak settles: every error is caught inside
SpeakSettles(ttsFailed) == "resolved"

\* audio.onended
OnAudioEnded(w, a) ==
  [w EXCEPT !.audio[a] = "stopped", !.tts.isPlaying = FALSE,
            !.tts.currentAudio = NoAudio]

\* audio.onerror
OnAudioError(w, a) ==
  [w EXCEPT !.audio[a] = "stopped", !.tts.error = "error",
            !.tts.isPlaying = FALSE, !.tts.currentAudio = NoAudio]

NoRequest == [text |-> <<>>, language |-> ""]

\* A handleNewSpeech invocation: its arguments and the values its closure
\* captured; heardIn is the language tag its text was recognised in
NewHandler(text, src, tgt, dir, conf, clAudio, clActive, id, heardIn) ==
  [text |-> text, src |-> src, tgt |-> tgt, dir |-> dir, conf |-> conf,
   clAudio |-> clAudio, clActive |-> clActive, id |-> id, heardIn |-> heardIn,
   request |-> NoRequest, pc |-> "translate",
   audio |-> NoAudio, stopped |-> FALSE, appended |-> FALSE, spoke |-> FALSE,
   ttsFailed |-> FALSE]

InFlight(h) == h.pc # "done"

\* A handler that returned keeps no closure; only its history is kept.
Finished(hd) ==
  [NewHandler(<<>>, "", "", "", 0, NoAudio, FALSE, 0, "") EXCEPT
     !.pc = "done", !.audio = hd.audio, !.stopped = hd.stopped,
     !.appended = hd.appended, !.spoke = hd.spoke, !.ttsFailed = hd.ttsFailed]

----------------------------------------------------------------------------
(* SingleDeviceBridge *)

DefaultConfidence == 80

SdbSource(c) == IF c.currentDirection = "a_to_b" THEN c.languageA ELSE c.languageB
SdbTarget_SameAsSource(c) == SdbSource(c)
SdbTarget(c) == IF c.currentDirection = "a_to_b" THEN c.languageB ELSE c.languageA

\* stopTranslation
StopTranslation(w) == [StopListening(w) EXCEPT !.sdb.isActive = FALSE]

\* history: the handlers whose translation request was pending at a stop
MarkStopped(w) ==
  [w EXCEPT !.hs = [i \in 1..Len(w.hs) |->
      IF w.hs[i].pc = "translate" THEN [w.hs[i] EXCEPT !.stopped = TRUE]
      ELSE w.hs[i]]]

\* An auto-advance policy: the turn passes to the other party after speaking
SdbAfterSpeak_AutoAdvance(w, h) ==
  [MarkStopped(StopTranslation(w)) EXCEPT
     !.hs[h] = Finished(@),
     !.sdb.currentDirection = IF @ = "a_to_b" THEN "b_to_a" ELSE "a_to_b"]

\* handleNewSpeech once speak has returned: the auto-stop
\* (a rejected speak would skip it and end in the catch block)
SdbAfterSpeak(w, h) ==
  IF SpeakSettles(w.hs[h].ttsFailed) = "rejected"
  THEN [w EXCEPT !.hs[h] = Finished(@)]
  ELSE [MarkStopped(StopTranslation(w)) EXCEPT !.hs[h] = Finished(@)]

SdbTranslation_Untranslated(hd, translationResult, id) ==
  [id |-> id, originalText |-> hd.text, translatedText |-> hd.text,
   direction |-> hd.dir, sourceLanguage |-> hd.src, targetLanguage |-> hd.tgt,
   confidence |-> IF hd.conf # 0 THEN hd.conf ELSE DefaultConfidence]

\* the translation record handleNewSpeech builds
SdbTranslation(hd, translationResult, id) ==
  [id |-> id, originalText |-> hd.text,
   translatedText |-> translationResult.translatedText,
   direction |-> hd.dir, sourceLanguage |-> hd.src, targetLanguage |-> hd.tgt,
   confidence |-> IF hd.conf # 0 THEN hd.conf ELSE DefaultConfidence]

\* handleNewSpeech from the translation result to the await of speak
SdbOnTranslated(w, h, result) ==
  LET hd == w.hs[h]
      translation == SdbTranslation(hd, result, w.now)
      w1 == [w EXCEPT !.sdb.translations = Append(@, translation),
                      !.hs[h].appended = TRUE]
      w2 == SpeakBegin(w1, h, result.translatedText, hd.tgt)
  IN  IF w2.hs[h].pc = "tts" THEN w2 ELSE SdbAfterSpeak(w2, h)

SdbGuard_NoDuplicateCheck(text, lastProcessedTranscript) == ~Blank(text)

\* the guard of handleNewSpeech
SdbGuard(text, lastProcessedTranscript) ==
  ~Blank(text) /\ text # lastProcessedTranscript

\* handleNewSpeech(text) up to its first await
SdbHandleNewSpeech(w, text) ==
  IF ~SdbGuard(text, w.sdb.lastProcessedTranscript) THEN w
  ELSE LET c == w.sdb
           h == Len(w.hs) + 1
           sync == TranslateSync(text, SdbSource(c), SdbTarget(c))
           w1 == [w EXCEPT
                    !.sdb.lastProcessedTranscript = text,
                    !.hs = Append(@, NewHandler(text, SdbSource(c), SdbTarget(c),
                             c.currentDirection, w.rec.confidence,
                             w.tts.currentAudio, c.isActive, 0,
                             w.rec.heardIn)),
                    !.ev.issued = @ + 1]
       IN  IF sync.status = "pending" THEN [w1 EXCEPT !.isTranslating = TRUE]
           ELSE IF sync.status = "resolved" THEN SdbOnTranslated(w1, h, sync.result)
           ELSE [w1 EXCEPT !.hs[h] = Finished(@)]

\* the values the transcript effect depends on, handleNewSpeech's included
SdbEffectDeps(w) ==
  <<w.rec.transcript, w.sdb.isActive, w.sdb.lastProcessedTranscript,
    w.sdb.currentDirection, w.sdb.languageA, w.sdb.languageB,
    w.rec.confidence, w.tts.currentAudio>>

\* the transcript effect, run once
SdbEffect(w) ==
  IF w.rec.transcript # <<>> /\ w.sdb.isActive
  THEN SdbHandleNewSpeech(
         [w EXCEPT !.ev.delivered = TRUE, !.ev.redelivered = w.ev.delivered],
         w.rec.transcript)
  ELSE w

\* After an operation took the world from w0 to w, React renders and runs the
\* effect when a dependency changed, and again when the effect's own state
\* update changed one.
SdbRender(w0, w) ==
  IF SdbEffectDeps(w) = SdbEffectDeps(w0) THEN w
  ELSE LET w1 == SdbEffect(w)
       IN  IF SdbEffectDeps(w1) = SdbEffectDeps(w) THEN w1 ELSE SdbEffect(w1)

SdbMain == sdb.permissionsGranted /\ sdb.isSetupComplete

\* requestAllPermissions: getUserMedia resolves or rejects
SDB_RequestAllPermissions(ok) ==
  /\ ~sdb.permissionsGranted
  /\ Commit([World EXCEPT !.sdb.permissionsGranted = ok])

SDB_SetLanguageA(l) ==
  /\ sdb.permissionsGranted /\ ~sdb.isSetupComplete
  /\ Commit(SdbRender(World, [World EXCEPT !.sdb.languageA = l]))

SDB_SetLanguageB(l) ==
  /\ sdb.permissionsGranted /\ ~sdb.isSetupComplete
  /\ Commit(SdbRender(World, [World EXCEPT !.sdb.languageB = l]))

\* the setup screen's Start Translation button
SDB_CompleteSetup ==
  /\ sdb.permissionsGranted /\ ~sdb.isSetupComplete
  /\ sdb.languageA # sdb.languageB
  /\ Commit([World EXCEPT !.sdb.isSetupComplete = TRUE])

\* startTranslation, behind the Start Listening button shown when ~isActive
SDB_StartTranslation(ok) ==
  /\ SdbMain /\ ~sdb.isActive
  /\ LET w1 == StartListening(World, SpeechLang(SdbSource(sdb)), FALSE, ok)
         w2 == IF ok THEN [w1 EXCEPT !.sdb.isActive = TRUE] ELSE w1
     IN  Commit(SdbRender(World, w2))

\* stopTranslation, behind the Stop Listening button shown when isActive
SDB_StopTranslation ==
  /\ SdbMain /\ sdb.isActive
  /\ Commit(SdbRender(World, MarkStopped(StopTranslation(World))))

\* switchDirection, behind the Switch Direction button disabled when isActive
SDB_SwitchDirection ==
  /\ SdbMain /\ ~sdb.isActive
  /\ LET d == IF sdb.currentDirection = "a_to_b" THEN "b_to_a" ELSE "a_to_b"
         w1 == [World EXCEPT !.sdb.currentDirection = d]
         w2 == IF sdb.isActive THEN StopTranslation(w1) ELSE w1
     IN  Commit(SdbRender(World, w2))

FinalTexts == {tBlank, tHi, tHello}
\* the provider outcomes the relay is run against: a failure, a success
RelayOutcomes == {o \in ProviderOutcomes : o.kind \in {"network_error", "ok"}}
Confidences == {95}

\* the capture adapter delivers a final transcript
SDB_FinalTranscript(text, conf) ==
  /\ rec.isListening
  /\ ev.n < MaxEvents
  /\ LET w1 == OnFinalTranscript(World, text, conf, FALSE)
         w2 == [w1 EXCEPT !.ev = [EvInit EXCEPT !.n = ev.n + 1,
                                    !.fresh = text # sdb.lastProcessedTranscript]]
     IN  Commit(SdbRender(World, w2))

CaptureErrors == {"NO_SPEECH"}

\* the capture adapter reports an error while armed; the component has no
\* handler for it and only renders speechError
SDB_CaptureError(err) ==
  /\ rec.isListening
  /\ Commit(SdbRender(World, OnCaptureError(World, err)))

\* the translation request of handler h settles
SDB_TranslateReturn(h, out, dt) ==
  /\ hs[h].pc = "translate"
  /\ LET r == TranslateOnResponse(hs[h].text, hs[h].src, hs[h].tgt, out)
         w1 == DateNow([World EXCEPT !.isTranslating = FALSE], dt)
         w2 == IF r.status = "resolved" THEN SdbOnTranslated(w1, h, r.result)
               ELSE [w1 EXCEPT !.hs[h] = Finished(@)]
     IN  Commit(SdbRender(World, w2))

\* the synthesis provider call of handler h settles
SDB_TtsReturn(h, out) ==
  /\ hs[h].pc = "tts"
  /\ LET w1 == SpeakOnProvider(World, h, out)
         w2 == IF w1.hs[h].pc = "spoken" THEN SdbAfterSpeak(w1, h) ELSE w1
     IN  Commit(SdbRender(World, w2))

\* audio.play() of handler h settles; a paused element cannot start
SDB_PlaySettle(h, ok) ==
  /\ hs[h].pc = "play"
  /\ ok => audio[hs[h].audio] = "starting"
  /\ Commit(SdbRender(World, SdbAfterSpeak(SpeakOnPlay(World, h, ok), h)))

SDB_AudioEnded(a) ==
  /\ audio[a] = "playing"
  /\ Commit(SdbRender(World, OnAudioEnded(World, a)))

SDB_AudioError(a) ==
  /\ audio[a] = "playing"
  /\ Commit(SdbRender(World, OnAudioError(World, a)))

NextSDB ==
  \/ \E ok \in BOOLEAN : SDB_RequestAllPermissions(ok)
  \/ \E l \in SelectLangs : SDB_SetLanguageA(l)
  \/ \E l \in SelectLangs : SDB_SetLanguageB(l)
  \/ SDB_CompleteSetup
  \/ \E ok \in BOOLEAN : SDB_StartTranslation(ok)
  \/ SDB_StopTranslation
  \/ SDB_SwitchDirection
  \/ \E text \in FinalTexts, conf \in Confidences : SDB_FinalTranscript(text, conf)
  \/ \E err \in CaptureErrors : SDB_CaptureError(err)
  \/ \E h \in 1..Len(hs), out \in RelayOutcomes, dt \in Millis :
       SDB_TranslateReturn(h, out, dt)
  \/ \E h \in 1..Len(hs), out \in TtsOutcomes : SDB_TtsReturn(h, out)
  \/ \E h \in 1..Len(hs), ok \in BOOLEAN : SDB_PlaySettle(h, ok)
  \/ \E a \in 1..Len(audio) : SDB_AudioEnded(a)
  \/ \E a \in 1..Len(audio) : SDB_AudioError(a)

SpecSDB == Init /\ [][NextSDB]_vars

\* Every external call of a handler eventually returns: the translation
\* request, the synthesis request and audio.play().
SdbTranslateSettles ==
  \E h \in 1..Len(hs), out \in RelayOutcomes, dt \in Millis :
    SDB_TranslateReturn(h, out, dt)
SdbTtsSettles == \E h \in 1..Len(hs), out \in TtsOutcomes : SDB_TtsReturn(h, out)
SdbPlaySettles == \E h \in 1..Len(hs), ok \in BOOLEAN : SDB_PlaySettle(h, ok)

SpecSDBLive ==
  /\ SpecSDB
  /\ WF_vars(SdbTranslateSettles)
  /\ WF_vars(SdbTtsSettles)
  /\ WF_vars(SdbPlaySettles)

----------------------------------------------------------------------------
(* PhoneCallTranslator *)

PctDefaultConfidence == 90

PctMain == pct.permissionsGranted /\ pct.isSetupComplete

\* speakTranslationDuringCall once speak has settled: the catch block, and
\* with it the browser speech fallback, runs when speak rejected
PctAfterSpeak(w, h, text) ==
  LET w1 == IF SpeakSettles(w.hs[h].ttsFailed) = "rejected"
            THEN [w EXCEPT !.browserSpeech = Append(@, text)]
            ELSE w
  IN  [w1 EXCEPT !.hs[h] = Finished(@)]

\* speakTranslationDuringCall(text, language) as captured by handler h
SpeakTranslationDuringCall(w, h, text, language) ==
  IF text = <<>> \/ ~w.hs[h].clActive THEN [w EXCEPT !.hs[h] = Finished(@)]
  ELSE LET w1 == SpeakBegin(w, h, text, language)
       IN  IF w1.hs[h].pc = "tts" THEN w1 ELSE PctAfterSpeak(w1, h, text)

\* handleNewSpeech from the translation result on
\* A history update that keeps only the utterance being completed
PctUpdateTranslation_KeepsOnlyOwn(prev, translationId, result) ==
  SelectSeq([i \in 1..Len(prev) |->
               [prev[i] EXCEPT !.translatedText = result.translatedText,
                               !.confidence = result.confidence]],
            LAMBDA t : t.id = translationId)

\* setTranslations(prev => prev.map(...)): the entry with the utterance's id
\* gets the translated text and the confidence, the others are kept as is
PctUpdateTranslation(prev, translationId, result) ==
  [i \in 1..Len(prev) |->
     IF prev[i].id = translationId
     THEN [prev[i] EXCEPT !.translatedText = result.translatedText,
                          !.confidence = result.confidence]
     ELSE prev[i]]

PctOnTranslated(w, h, result) ==
  LET hd == w.hs[h]
      updated == PctUpdateTranslation(w.pct.translations, hd.id, result)
      w1 == [w EXCEPT !.pct.translations = updated, !.hs[h].appended = TRUE]
  IN  IF result.translatedText # <<>> /\ result.translatedText # hd.text
      THEN SpeakTranslationDuringCall(w1, h, result.translatedText, hd.tgt)
      ELSE [w1 EXCEPT !.hs[h] = Finished(@)]

\* handleNewSpeech(text, fromLang, toLang, "caller") up to its first await;
\* Date.now() is read dt milliseconds after its last reading
PctHandleNewSpeech(w, text, fromLang, toLang, dt) ==
  IF Blank(text) THEN w
  ELSE LET wt == DateNow(w, dt)
           h == Len(w.hs) + 1
           originalTranslation ==
             [id |-> wt.now, originalText |-> text, translatedText |-> <<>>,
              speaker |-> "caller", sourceLanguage |-> fromLang,
              targetLanguage |-> toLang,
              confidence |-> IF w.rec.confidence # 0 THEN w.rec.confidence
                             ELSE PctDefaultConfidence]
           sync == TranslateSync(text, fromLang, toLang)
           w1 == [wt EXCEPT
                    !.pct.translations = Append(@, originalTranslation),
                    !.hs = Append(@, NewHandler(text, fromLang, toLang, "caller",
                             w.rec.confidence, w.tts.currentAudio,
                             w.phone.isActive, wt.now, w.rec.heardIn))]
       IN  IF sync.status = "pending" THEN [w1 EXCEPT !.isTranslating = TRUE]
           ELSE IF sync.status = "resolved" THEN PctOnTranslated(w1, h, sync.result)
           ELSE [w1 EXCEPT !.hs[h] = Finished(@)]

\* The transcript effect; handleNewSpeech is a new function on every render,
\* so the effect runs after every render. Once it has run, finalTranscript
\* is reset and the next run finds nothing.
PctRender(w, dt) ==
  IF w.rec.finalTranscript # <<>> /\ w.phone.isActive
  THEN ResetTranscript(PctHandleNewSpeech(w, w.rec.finalTranscript,
         w.pct.callerLanguage, w.pct.receiverLanguage, dt))
  ELSE w

\* requestPermissions, behind the Grant Permissions button
PCT_RequestPermissions(granted) ==
  /\ ~PctMain
  /\ Commit([World EXCEPT !.pct.permissionsGranted = granted,
                          !.pct.isSetupComplete = IF granted THEN TRUE ELSE @])

PCT_SetCallerLanguage(l) ==
  /\ PctMain
  /\ Commit(PctRender([World EXCEPT !.pct.callerLanguage = l], 0))

PCT_SetReceiverLanguage(l) ==
  /\ PctMain
  /\ Commit(PctRender([World EXCEPT !.pct.receiverLanguage = l], 0))

\* startPhoneCallTranslation, behind the Start Translation button; recording
\* starts or getUserMedia fails, which startCallRecording absorbs, and speech
\* recognition is started in both cases
PCT_Start(recording, dt) ==
  /\ PctMain /\ ~phone.isActive
  /\ LET w1 == IF recording THEN [World EXCEPT !.phone.isActive = TRUE] ELSE World
     IN  Commit(PctRender(
           StartListening(w1, SpeechLang(pct.callerLanguage), TRUE, TRUE), dt))

\* stopPhoneCallTranslation, behind the Stop Translation button
PCT_Stop ==
  /\ PctMain /\ phone.isActive
  /\ LET w1 == [World EXCEPT !.phone.isActive = FALSE]
     IN  Commit(PctRender(StopSpeaking(StopListening(w1), tts.currentAudio), 0))

PCT_FinalTranscript(text, conf, dt) ==
  /\ rec.isListening
  /\ ev.n < MaxFinals
  /\ LET w1 == OnFinalTranscript(World, text, conf, TRUE)
     IN  Commit(PctRender([w1 EXCEPT !.ev.n = @ + 1], dt))

PCT_TranslateReturn(h, out) ==
  /\ hs[h].pc = "translate"
  /\ LET r == TranslateOnResponse(hs[h].text, hs[h].src, hs[h].tgt, out)
         w1 == [World EXCEPT !.isTranslating = FALSE]
     IN  Commit(PctRender(
           IF r.status = "resolved" THEN PctOnTranslated(w1, h, r.result)
           ELSE [w1 EXCEPT !.hs[h] = Finished(@)], 0))

PCT_TtsReturn(h, out) ==
  /\ hs[h].pc = "tts"
  /\ LET w1 == SpeakOnProvider(World, h, out)
     IN  Commit(PctRender(
           IF w1.hs[h].pc = "spoken" THEN PctAfterSpeak(w1, h, <<>>) ELSE w1, 0))

PCT_PlaySettle(h, ok) ==
  /\ hs[h].pc = "play"
  /\ ok => audio[hs[h].audio] = "starting"
  /\ Commit(PctRender(PctAfterSpeak(SpeakOnPlay(World, h, ok), h, <<>>), 0))

PCT_AudioEnded(a) ==
  /\ audio[a] = "playing"
  /\ Commit(PctRender(OnAudioEnded(World, a), 0))

PCT_AudioError(a) ==
  /\ audio[a] = "playing"
  /\ Commit(PctRender(OnAudioError(World, a), 0))

\* The languages picked in the call screen's selects and the final
\* transcripts heard during a call
CallLangs == {"en", "es"}
CallTexts == {tBlank, tHello}

NextPCT ==
  \/ \E granted \in BOOLEAN : PCT_RequestPermissions(granted)
  \/ \E l \in CallLangs : PCT_SetCallerLanguage(l)
  \/ \E l \in CallLangs : PCT_SetReceiverLanguage(l)
  \/ \E recording \in BOOLEAN, dt \in Millis : PCT_Start(recording, dt)
  \/ PCT_Stop
  \/ \E text \in CallTexts, conf \in Confidences, dt \in Millis :
       PCT_FinalTranscript(text, conf, dt)
  \/ \E h \in 1..Len(hs), out \in RelayOutcomes : PCT_TranslateReturn(h, out)
  \/ \E h \in 1..Len(hs), out \in TtsOutcomes : PCT_TtsReturn(h, out)
  \/ \E h \in 1..Len(hs), ok \in BOOLEAN : PCT_PlaySettle(h, ok)
  \/ \E a \in 1..Len(audio) : PCT_AudioEnded(a)
  \/ \E a \in 1..Len(audio) : PCT_AudioError(a)

SpecPCT == Init /\ [][NextPCT]_vars

----------------------------------------------------------------------------
(* ConferenceBridge. requestAllPermissions sets permissionsGranted and      *)
(* isSetupComplete together, so the language setup screen is never shown    *)
(* and the languages keep their initial values. The actions are the         *)
(* component's callbacks; the Start button that calls                       *)
(* startTranslationBridge is rendered disabled while currentSpeaker is      *)
(* null (CbStartButtonDisabled).                                            *)

CbSource(c) ==
  IF c.currentSpeaker = "person_a" THEN c.personALanguage ELSE c.personBLanguage
CbTarget(c) ==
  IF c.currentSpeaker = "person_a" THEN c.personBLanguage ELSE c.personALanguage

CbMain == cb.permissionsGranted /\ cb.isSetupComplete

\* disabled={!currentSpeaker} on the Start Translation Bridge button
CbStartButtonDisabled == cb.currentSpeaker = "null"

\* {bridgeActive && ...} around the Person A / Person B buttons
CbSpeakerSelectionShown == cb.bridgeActive

\* handleNewSpeech from the translation result to the await of speak; the
\* handler returns when speak has returned
CbOnTranslated(w, h, result) ==
  LET hd == w.hs[h]
      translation ==
        [id |-> w.now, originalText |-> hd.text,
         translatedText |-> result.translatedText,
         speaker |-> IF hd.dir # "null" THEN hd.dir ELSE "person_a",
         sourceLanguage |-> hd.src, targetLanguage |-> hd.tgt,
         confidence |-> IF hd.conf # 0 THEN hd.conf ELSE DefaultConfidence]
      w1 == [w EXCEPT !.cb.translations = Append(@, translation),
                      !.hs[h].appended = TRUE]
      w2 == SpeakBegin(w1, h, result.translatedText, hd.tgt)
  IN  IF w2.hs[h].pc = "tts" THEN w2 ELSE [w2 EXCEPT !.hs[h] = Finished(@)]

\* handleNewSpeech(text) up to its first await
CbHandleNewSpeech(w, text) ==
  IF Blank(text) \/ text = w.cb.lastProcessedTranscript THEN w
  ELSE LET c == w.cb
           h == Len(w.hs) + 1
           sync == TranslateSync(text, CbSource(c), CbTarget(c))
           w1 == [w EXCEPT
                    !.cb.lastProcessedTranscript = text,
                    !.hs = Append(@, NewHandler(text, CbSource(c), CbTarget(c),
                             c.currentSpeaker, w.rec.confidence,
                             w.tts.currentAudio, c.bridgeActive, 0,
                             w.rec.heardIn))]
       IN  IF sync.status = "pending" THEN [w1 EXCEPT !.isTranslating = TRUE]
           ELSE IF sync.status = "resolved" THEN CbOnTranslated(w1, h, sync.result)
           ELSE [w1 EXCEPT !.hs[h] = Finished(@)]

\* the values the transcript effect depends on, handleNewSpeech's included
CbEffectDeps(w) ==
  <<w.rec.transcript, w.cb.bridgeActive, w.cb.currentSpeaker,
    w.cb.lastProcessedTranscript, w.rec.confidence, w.tts.currentAudio>>

\* the transcript effect, run once
CbEffect(w) ==
  IF w.rec.transcript # <<>> /\ w.cb.bridgeActive /\ w.cb.currentSpeaker # "null"
  THEN CbHandleNewSpeech(w, w.rec.transcript)
  ELSE w

CbRender(w0, w) ==
  IF CbEffectDeps(w) = CbEffectDeps(w0) THEN w
  ELSE LET w1 == CbEffect(w)
       IN  IF CbEffectDeps(w1) = CbEffectDeps(w) THEN w1 ELSE CbEffect(w1)

\* requestAllPermissions: the boolean requestPermissions resolves with is
\* not looked at
CB_RequestAllPermissions(granted) ==
  /\ ~cb.permissionsGranted
  /\ Commit([World EXCEPT !.cb.permissionsGranted = TRUE,
                          !.cb.isSetupComplete = TRUE])

\* startTranslationBridge: startCallRecording absorbs a getUserMedia failure;
\* a startListening failure ends in the catch block
CB_StartTranslationBridge(recording, ok) ==
  /\ CbMain /\ ~cb.bridgeActive
  /\ LET w1 == IF recording THEN [World EXCEPT !.phone.isActive = TRUE] ELSE World
         w2 == StartListening(w1, SpeechLang(cb.personALanguage), TRUE, ok)
         w3 == IF ok THEN [w2 EXCEPT !.cb.bridgeActive = TRUE] ELSE w2
     IN  Commit(CbRender(World, w3))

\* stopTranslationBridge
CB_StopTranslationBridge ==
  /\ CbMain /\ cb.bridgeActive
  /\ LET w1 == StopListening([World EXCEPT !.phone.isActive = FALSE])
     IN  Commit(CbRender(World, [w1 EXCEPT !.cb.bridgeActive = FALSE,
                                           !.cb.currentSpeaker = "null"]))

\* the Person A / Person B buttons, rendered while the bridge is active
CB_SetCurrentSpeaker(p) ==
  /\ CbMain /\ cb.bridgeActive
  /\ Commit(CbRender(World, [World EXCEPT !.cb.currentSpeaker = p]))

CB_FinalTranscript(text, conf) ==
  /\ rec.isListening
  /\ ev.n < MaxFinals
  /\ LET w1 == OnFinalTranscript(World, text, conf, TRUE)
     IN  Commit(CbRender(World, [w1 EXCEPT !.ev.n = @ + 1]))

CB_TranslateReturn(h, out, dt) ==
  /\ hs[h].pc = "translate"
  /\ LET r == TranslateOnResponse(hs[h].text, hs[h].src, hs[h].tgt, out)
         w1 == DateNow([World EXCEPT !.isTranslating = FALSE], dt)
         w2 == IF r.status = "resolved" THEN CbOnTranslated(w1, h, r.result)
               ELSE [w1 EXCEPT !.hs[h] = Finished(@)]
     IN  Commit(CbRender(World, w2))

CB_TtsReturn(h, out) ==
  /\ hs[h].pc = "tts"
  /\ LET w1 == SpeakOnProvider(World, h, out)
         w2 == IF w1.hs[h].pc = "spoken" THEN [w1 EXCEPT !.hs[h] = Finished(@)]
               ELSE w1
     IN  Commit(CbRender(World, w2))

CB_PlaySettle(h, ok) ==
  /\ hs[h].pc = "play"
  /\ ok => audio[hs[h].audio] = "starting"
  /\ LET w1 == SpeakOnPlay(World, h, ok)
     IN  Commit(CbRender(World, [w1 EXCEPT !.hs[h] = Finished(@)]))

CB_AudioEnded(a) ==
  /\ audio[a] = "playing"
  /\ Commit(CbRender(World, OnAudioEnded(World, a)))

CB_AudioError(a) ==
  /\ audio[a] = "playing"
  /\ Commit(CbRender(World, OnAudioError(World, a)))

Speakers == {"person_a", "person_b"}

NextCB ==
  \/ \E granted \in BOOLEAN : CB_RequestAllPermissions(granted)
  \/ \E recording \in BOOLEAN, ok \in BOOLEAN : CB_StartTranslationBridge(recording, ok)
  \/ CB_StopTranslationBridge
  \/ \E p \in Speakers : CB_SetCurrentSpeaker(p)
  \/ \E text \in FinalTexts, conf \in Confidences : CB_FinalTranscript(text, conf)
  \/ \E h \in 1..Len(hs), out \in RelayOutcomes, dt \in Millis :
       CB_TranslateReturn(h, out, dt)
  \/ \E h \in 1..Len(hs), out \in TtsOutcomes : CB_TtsReturn(h, out)
  \/ \E h \in 1..Len(hs), ok \in BOOLEAN : CB_PlaySettle(h, ok)
  \/ \E a \in 1..Len(audio) : CB_AudioEnded(a)
  \/ \E a \in 1..Len(audio) : CB_AudioError(a)

SpecCB == Init /\ [][NextCB]_vars

----------------------------------------------------------------------------
(* usePhoneCallIntegration, called directly *)

\* setupCallIntegration: throws and catches when the device is unsupported
SetupCallIntegration(ph) ==
  IF ~ph.isSupported THEN [ph EXCEPT !.error = "not_supported"]
  ELSE [ph EXCEPT !.audioContext = TRUE, !.error = "none"]

\* the mount effect: checkSupport
PH_CheckSupport(supported) ==
  /\ ~phone.supportChecked
  /\ phone' = [phone EXCEPT !.supportChecked = TRUE, !.isSupported = supported]
  /\ UNCHANGED <<now, rec, isTranslating, calls, tts, audio, hs, sdb, pct, cb, ev,
                 browserSpeech, demo, tf>>

\* requestPermissions: the test stream is stopped at once
PH_RequestPermissions(granted) ==
  /\ phone' = IF granted THEN phone ELSE [phone EXCEPT !.error = "denied"]
  /\ UNCHANGED <<now, rec, isTranslating, calls, tts, audio, hs, sdb, pct, cb, ev,
                 browserSpeech, demo, tf>>

PH_SetupCallIntegration ==
  /\ phone' = SetupCallIntegration(phone)
  /\ UNCHANGED <<now, rec, isTranslating, calls, tts, audio, hs, sdb, pct, cb, ev,
                 browserSpeech, demo, tf>>

\* startCallRecording up to its await of getUserMedia
PH_StartCallRecording ==
  /\ Len(phone.starts) < MaxCalls
  /\ LET ph == IF ~phone.audioContext THEN SetupCallIntegration(phone) ELSE phone
     IN  phone' = [ph EXCEPT !.starts =
                     Append(@, [pc |-> "media", stream |-> 0, stopSince |-> FALSE])]
  /\ UNCHANGED <<now, rec, isTranslating, calls, tts, audio, hs, sdb, pct, cb, ev,
                 browserSpeech, demo, tf>>

\* getUserMedia rejects, or resolves with a stream for which the
\* MediaRecorder constructor throws (mimeType not supported), or all goes well
MediaOutcomes == {"denied", "recorder_throws", "ok"}

\* startCallRecording of starts[i] after getUserMedia settled
PH_GetUserMedia(i, out) ==
  /\ phone.starts[i].pc = "media"
  /\ LET n == Len(phone.streams) + 1
     IN  phone' =
           IF out = "denied"
           THEN [phone EXCEPT !.error = "failed", !.starts[i].pc = "done"]
           ELSE IF out = "recorder_throws"
           THEN [phone EXCEPT
                   !.streams = Append(@, [tracks |-> "live", recorder |-> "none"]),
                   !.error = "failed",
                   !.starts[i] = [@ EXCEPT !.pc = "done", !.stream = n]]
           ELSE [phone EXCEPT
                   !.streams = Append(@, [tracks |-> "live", recorder |-> "recording"]),
                   !.recorder = n, !.isActive = TRUE, !.callerAudio = n,
                   !.error = "none",
                   !.starts[i] = [@ EXCEPT !.pc = "done", !.stream = n]]
  /\ UNCHANGED <<now, rec, isTranslating, calls, tts, audio, hs, sdb, pct, cb, ev,
                 browserSpeech, demo, tf>>

\* stopCallRecording; starts[i].stopSince records that it returned after
\* starts[i] was invoked
PH_StopCallRecording ==
  /\ LET r == phone.recorder
         c == phone.callerAudio
         s1 == IF r # 0 /\ phone.streams[r].recorder # "inactive"
               THEN [phone.streams EXCEPT ![r].recorder = "inactive"]
               ELSE phone.streams
         s2 == IF c # 0 THEN [s1 EXCEPT ![c].tracks = "stopped"] ELSE s1
     IN  phone' = [phone EXCEPT
                     !.streams = s2, !.audioContext = FALSE, !.isActive = FALSE,
                     !.callerAudio = 0, !.recorder = 0,
                     !.starts = [i \in 1..Len(@) |-> [@[i] EXCEPT !.stopSince = TRUE]]]
  /\ UNCHANGED <<now, rec, isTranslating, calls, tts, audio, hs, sdb, pct, cb, ev,
                 browserSpeech, demo, tf>>

NextPhone ==
  \/ \E supported \in BOOLEAN : PH_CheckSupport(supported)
  \/ \E granted \in BOOLEAN : PH_RequestPermissions(granted)
  \/ PH_SetupCallIntegration
  \/ PH_StartCallRecording
  \/ \E i \in 1..Len(phone.starts), out \in MediaOutcomes : PH_GetUserMedia(i, out)
  \/ PH_StopCallRecording

SpecPhone == Init /\ [][NextPhone]_vars

----------------------------------------------------------------------------
(* CallDemo page *)

\* startDemo, behind the Try Voice Demo button of the intro screen
DM_StartDemo ==
  /\ demo.currentScreen = "intro"
  /\ LET limitCheck == CanUseDemo(demo)
     IN  demo' =
           IF ~limitCheck.allowed
           THEN [demo EXCEPT !.currentScreen = "blocked",
                             !.demoLimitInfo = limitCheck]
           ELSE [TrackDemoUsage(demo) EXCEPT
                   !.demoStart = TRUE, !.currentScreen = "demo",
                   !.entered[demo.today] = @ + 1]
  /\ UNCHANGED <<now, rec, isTranslating, calls, tts, audio, hs, sdb, pct, cb,
                 phone, ev, browserSpeech, tf>>

\* endDemo, behind the Back to Demo Intro button of the demo screen
DM_EndDemo ==
  /\ demo.currentScreen = "demo"
  /\ demo' = [demo EXCEPT !.demoStart = FALSE, !.currentScreen = "intro"]
  /\ UNCHANGED <<now, rec, isTranslating, calls, tts, audio, hs, sdb, pct, cb,
                 phone, ev, browserSpeech, tf>>

\* The two five-minute timers: the page's interval returns to the intro
\* screen, the session's timeout removes demo_start_time
DM_TimeLimit(timer) ==
  /\ IF timer = "page" THEN demo.currentScreen = "demo" ELSE demo.demoStart
  /\ demo' = IF timer = "page" THEN [demo EXCEPT !.currentScreen = "intro"]
             ELSE [demo EXCEPT !.demoStart = FALSE]
  /\ UNCHANGED <<now, rec, isTranslating, calls, tts, audio, hs, sdb, pct, cb,
                 phone, ev, browserSpeech, tf>>

\* The page is loaded again in the same tab: the storage is kept
DM_Reload ==
  /\ demo' = DemoMount([demo EXCEPT
                !.currentScreen = "intro",
                !.demoLimitInfo = [allowed |-> FALSE, remaining |-> 0]])
  /\ UNCHANGED <<now, rec, isTranslating, calls, tts, audio, hs, sdb, pct, cb,
                 phone, ev, browserSpeech, tf>>

\* new Date().toDateString() changes at midnight
DM_NextDay ==
  /\ demo.today < MaxDays
  /\ demo' = [demo EXCEPT !.today = @ + 1]
  /\ UNCHANGED <<now, rec, isTranslating, calls, tts, audio, hs, sdb, pct, cb,
                 phone, ev, browserSpeech, tf>>

NextDemo ==
  \/ DM_StartDemo
  \/ DM_EndDemo
  \/ \E timer \in {"page", "session"} : DM_TimeLimit(timer)
  \/ DM_Reload
  \/ DM_NextDay

SpecDemo == Init /\ [][NextDemo]_vars

----------------------------------------------------------------------------
(* The detect-gender-and-tts function. An audio sample is [kind, data]:     *)
(* "pcm" with the sequence of its float32 samples, "none" when the request *)
(* has none, "invalid" when atob rejects it.                                *)

VOICE_MAPPINGS ==
  [female |-> <<"EXAVITQu4vr4xnSDxMaL", "9BWtsMINqrJLrRacOk9x",
                "FGY2WhTYpPnrIDTdsKH5", "XB0fDUnXU5powFXDhCwa",
                "Xb7hH8MSUJpSbSDYk0k2", "cgSgspJ2msm6clMCkdW9",
                "pFZP5JQG7iQjIQuC4Bku">>,
   male |-> <<"CwhRBWXzGAHq8TQ4Fs17", "IKne3meq5aSn9XLyUdCD",
              "JBFqnCBsd6RMkjVDRZzb", "TX3LPaxmHKxFdv7VOQHJ",
              "bIHbv24MWmeRgasZH58o", "cjVigY5qzO86Huf0OWal",
              "iP95p4xoKVk53GoZ742B", "onwK4e9ZLuTAKqWW03F9">>]

\* estimatedFreq = zeroCrossings * 44100 / (2 * length) > 150, in integers;
\* for an empty buffer the quotient is NaN and the comparison false
DetectGenderFromAudio(audioData) ==
  LET zeroCrossings ==
        Cardinality({i \in 2..Len(audioData) :
                       (audioData[i] >= 0) # (audioData[i - 1] >= 0)})
  IN  IF zeroCrossings * 44100 > 150 * 2 * Len(audioData)
      THEN "female" ELSE "male"

\* voices[Math.floor(Math.random() * voices.length)]; random is the value
\* of Math.random() in eighths
SelectVoiceForGender(gender, random) ==
  LET voices == VOICE_MAPPINGS[gender]
  IN  voices[((random * Len(voices)) \div 8) + 1]

\* One request served from req.json() to the response; detected records
\* what detectGenderFromAudio returned ("none" when it did not run or atob
\* threw), ttsOk whether the synthesis provider answered 2xx
TF_Serve(text, audioSample, random, ttsOk) ==
  /\ Len(tf) < MaxCalls
  /\ LET detected ==
           IF audioSample.kind \in {"none", "invalid"} THEN "none"
           ELSE DetectGenderFromAudio(audioSample.data)
         selectedVoice ==
           IF detected = "none" THEN "EXAVITQu4vr4xnSDxMaL"
           ELSE SelectVoiceForGender(detected, random)
         response ==
           IF text = "" \/ ~ttsOk
           THEN [status |-> 400, detectedGender |-> "", selectedVoice |-> ""]
           ELSE [status |-> 200,
                 detectedGender |->
                   IF audioSample.kind # "none"
                   THEN IF selectedVoice = VOICE_MAPPINGS.female[1]
                        THEN "female" ELSE "male"
                   ELSE "unknown",
                 selectedVoice |-> selectedVoice]
     IN  tf' = Append(tf, [sampled |-> audioSample.kind # "none",
                           detected |-> detected, response |-> response])
  /\ UNCHANGED <<now, rec, isTranslating, calls, tts, audio, hs, sdb, pct, cb,
                 phone, ev, browserSpeech, demo>>

NextTF ==
  \E text \in {"", "hola"}, random \in 0..7, ttsOk \in BOOLEAN,
     audioSample \in [kind : {"none", "invalid"}, data : {<<>>}]
                      \cup [kind : {"pcm"}, data : {<<1, 2, 1, 2>>, <<1, -1, 1, -1>>}] :
    TF_Serve(text, audioSample, random, ttsOk)

SpecTF == Init /\ [][NextTF]_vars

----------------------------------------------------------------------------
(* Claims about the relay components *)

AudioPlaying(w) == {a \in 1..Len(w.audio) : w.audio[a] = "playing"}

\* C1: while a handleNewSpeech invocation is still translating or speaking,
\* capture is not armed: a start request issued then is rejected.
C1_StartRejectedWhileBusy ==
  rec.isListening => \A h \in 1..Len(hs) : ~InFlight(hs[h])

\* C3: once handleNewSpeech has auto-stopped the relay, the audio it started
\* is no longer playing: Speaking turns into Idle only on playback completion.
C3_IdleOnlyAfterPlayback ==
  \A h \in 1..Len(hs) :
    hs[h].pc = "done" /\ ~sdb.isActive /\ hs[h].audio # NoAudio =>
      audio[hs[h].audio] # "playing"

\* C4: a handler whose translation request was pending when stopTranslation
\* was called appends no Utterance and does not invoke the synthesis client.
C4_StopDiscardsResponse ==
  \A h \in 1..Len(hs) : hs[h].stopped => ~hs[h].appended /\ ~hs[h].spoke

\* C5: when stopTranslation returns, the relay is Idle, the capture adapter
\* is not listening and no synthesized audio is playing.
C5_StopReleasesAll ==
  [][SDB_StopTranslation =>
       /\ ~sdb'.isActive
       /\ ~rec'.isListening
       /\ \A a \in 1..Len(audio') : audio'[a] # "playing"]_vars

\* C6: one final-transcript event yields at most one translation request and
\* one Utterance however often the effect delivers its text again, and exactly
\* one request once a new non-blank text has been delivered twice.
C6_NoDuplicateUtterance ==
  /\ ev.issued <= 1
  /\ Len(hs) <= ev.n
  /\ Len(sdb.translations) <= ev.n
  /\ ev.redelivered /\ ev.fresh /\ ~Blank(rec.transcript) => ev.issued = 1

C6_Witness ==
  /\ ev.redelivered /\ ev.issued = 1
  /\ Len(sdb.translations) = 1
  /\ sdb.translations[1].originalText = rec.transcript


\* C2: in PhoneCallTranslator a final transcript is never dispatched to the
\* translation client while an earlier utterance is still being translated
\* or spoken: a handler awaiting its translation has no earlier handler
\* in flight.
C2_OneUtteranceInFlight ==
  \A h1, h2 \in 1..Len(hs) :
    h1 < h2 /\ hs[h2].pc = "translate" => ~InFlight(hs[h1])

\* C7: two audio elements created by one useElevenLabsTTS instance never
\* play at the same time.
C7_OneAudioStream == Cardinality(AudioPlaying(World)) <= 1

\* C8: every utterance whose synthesis failed at the provider has been
\* spoken by the browser speech engine once speakTranslationDuringCall
\* has returned.
C8_FallbackSpeaks ==
  Cardinality({h \in 1..Len(hs) : hs[h].pc = "done" /\ hs[h].ttsFailed})
    <= Len(browserSpeech)

\* C11: in PhoneCallTranslator every utterance whose recorded translation
\* came from the fallback tier has been handed to speech synthesis once its
\* handler has returned, also when the fallback left the text unchanged.
C11_DegradedStillSpoken ==
  \A h \in 1..Len(hs) :
    /\ hs[h].pc = "done" /\ hs[h].appended
    /\ pct.translations[h].confidence = ConfFallback
    => hs[h].spoke

\* C12: in SingleDeviceBridge every accepted final transcript leads to its
\* handler returning with the relay Idle (isActive false), whether the
\* translation and synthesis providers succeed or fail, provided every
\* external call eventually returns.
C12_EventuallyIdle ==
  \A h \in 1..MaxEvents :
    (h <= Len(hs) /\ InFlight(hs[h]))
      ~> (h <= Len(hs) /\ hs[h].pc = "done" /\ ~sdb.isActive)

C12_Witness ==
  \E h \in 1..Len(hs) :
    /\ hs[h].pc = "done" /\ hs[h].ttsFailed /\ hs[h].appended
    /\ ~sdb.isActive /\ ~rec.isListening

\* C13: a capture failure (startListening fails, or the adapter reports an
\* error while armed and stops listening) leaves SingleDeviceBridge Idle
\* (isActive false) with an error surfaced and the direction unchanged.
C13_CaptureFailureIdle ==
  [][(SDB_StartTranslation(FALSE) \/ \E err \in CaptureErrors : SDB_CaptureError(err))
       => /\ ~sdb'.isActive
          /\ rec'.error # "none"
          /\ sdb'.currentDirection = sdb.currentDirection]_vars

C15_SourceDiffersFromTarget ==
  /\ sdb.languageA # sdb.languageB =>
       \A i \in 1..Len(sdb.translations) :
         sdb.translations[i].sourceLanguage # sdb.translations[i].targetLanguage
  /\ cb.personALanguage # cb.personBLanguage =>
       \A i \in 1..Len(cb.translations) :
         cb.translations[i].sourceLanguage # cb.translations[i].targetLanguage
  /\ sdb.languageA # sdb.languageB /\ cb.personALanguage # cb.personBLanguage =>
       \A h \in 1..Len(hs) : InFlight(hs[h]) => hs[h].src # hs[h].tgt

C15_Witness ==
  /\ Len(sdb.translations) = 1
  /\ sdb.translations[1].direction = "b_to_a"
  /\ sdb.translations[1].sourceLanguage = sdb.languageB
  /\ sdb.translations[1].targetLanguage = sdb.languageA

\* C16: capture is never armed in PhoneCallTranslator while the caller
\* language equals the receiver language.
C16_ArmedOnlyWithDistinctLanguages ==
  rec.isListening => pct.callerLanguage # pct.receiverLanguage

\* C17: in SingleDeviceBridge every handler whose translation arrived has
\* appended exactly one utterance with its source text, the translated text
\* and its source and target languages, and the synthesis request it then
\* sent carries exactly that translated text and the target language; one
\* full cycle from an empty history leaves the history with length 1.
C17_AppendThenSpeak ==
  /\ Len(sdb.translations) = Cardinality({h \in 1..Len(hs) : hs[h].appended})
  /\ \A h \in 1..Len(hs) :
       hs[h].pc \in {"tts", "play"} =>
         /\ hs[h].appended
         /\ \E i \in 1..Len(sdb.translations) :
              /\ sdb.translations[i].originalText = hs[h].text
              /\ sdb.translations[i].sourceLanguage = hs[h].src
              /\ sdb.translations[i].targetLanguage = hs[h].tgt
              /\ sdb.translations[i].translatedText = hs[h].request.text
              /\ hs[h].request.language = hs[h].tgt
  /\ Len(hs) = 1 /\ hs[1].pc = "done" /\ hs[1].spoke => Len(sdb.translations) = 1

C17_Witness ==
  /\ Len(hs) = 1 /\ hs[1].pc = "tts"
  /\ Len(sdb.translations) = 1
  /\ sdb.translations[1].originalText = tHello
  /\ sdb.translations[1].translatedText = tHola
  /\ hs[1].request = [text |-> tHola, language |-> "es"]

\* C18: the history is append-only: every step of the relay leaves the
\* utterances already in the history present and in their original order
\* (identity, original text and languages as recorded when appended), adds
\* new ones only at the end, and removes none
C18_HistoryAppendOnly ==
  [][LET SameUtterance(t, u) ==
           /\ t.id = u.id
           /\ t.originalText = u.originalText
           /\ t.sourceLanguage = u.sourceLanguage
           /\ t.targetLanguage = u.targetLanguage
         IsExtension(old, new) ==
           /\ Len(new) >= Len(old)
           /\ \A i \in 1..Len(old) : SameUtterance(old[i], new[i])
     IN  /\ IsExtension(sdb.translations, sdb'.translations)
         /\ IsExtension(pct.translations, pct'.translations)
         /\ IsExtension(cb.translations, cb'.translations)]_vars

\* Two utterances in the history, the first completed in place before or
\* after the second was appended behind it
C18_Witness ==
  /\ Len(pct.translations) = 2
  /\ pct.translations[1].id # pct.translations[2].id
  /\ pct.translations[1].translatedText \notin {<<>>, pct.translations[1].originalText}
  /\ pct.translations[2].translatedText # <<>>

\* C19: no two utterances of a history carry the same id, whatever the
\* timing of the incoming transcripts
C19_UniqueIds ==
  \A list \in {sdb.translations, pct.translations, cb.translations} :
    \A i, j \in 1..Len(list) : i # j => list[i].id # list[j].id

\* C20: an utterance's translatedText is empty until the translation issued
\* for that utterance has responded, and never changes once it is set: a
\* translate response fills only its own utterance and cannot overwrite
\* another's, also when translations overlap
C20_TranslationFilledOnce ==
  [][/\ \A h \in 1..Len(pct'.translations) :
          hs'[h].pc = "translate" => pct'.translations[h].translatedText = <<>>
     /\ \A i \in 1..Len(pct.translations) :
          pct.translations[i].translatedText # <<>> =>
            pct'.translations[i].translatedText = pct.translations[i].translatedText]_vars

\* C21: identity law: for every language L and every non-blank text,
\* translate(text, L, L) returns the text itself with confidence 1.0, calls
\* no provider and does not toggle isTranslating
C21_IdentityLaw ==
  \A i \in 1..Len(calls) :
    LET c == calls[i]
    IN  c.from = c.to /\ ~Blank(c.text) =>
          /\ c.status = "resolved"
          /\ c.result = TResult(c.text, c.from, c.to, ConfIdentity)
          /\ ~c.dispatched
          /\ c.itAfter = c.itBefore

\* An identity call made while an earlier call was awaiting the provider
C21_Witness ==
  \E i, j \in 1..Len(calls) :
    /\ calls[i].dispatched /\ calls[i].status = "pending"
    /\ calls[j].variant = "libre" /\ calls[j].itBefore
    /\ calls[j].from = "fr" /\ calls[j].to = "fr" /\ calls[j].text = tBonjour
    /\ calls[j].status = "resolved"

\* C22: fallback monotonicity: within each hook the confidence of a result
\* is non-increasing along the tiers identity (0), primary provider (1),
\* phrase table of the pair (2), marked passthrough (3): a result of a
\* later tier never has a higher confidence than one of an earlier tier
C22_ConfidenceNonIncreasing ==
  LET HasTable(c) ==
        IF c.variant = "libre" THEN MockTranslations(c.from, c.to) # <<>>
        ELSE <<c.from, c.to>> \in {<<"en", "es">>, <<"en", "pt-BR">>, <<"es", "en">>}
      Tier(c) ==
        IF ~c.dispatched THEN 0
        ELSE IF c.out.kind \notin FailureKinds THEN 1
        ELSE IF HasTable(c) THEN 2 ELSE 3
      Settled == {i \in 1..Len(calls) : calls[i].status = "resolved"}
  IN  \A i, j \in Settled :
        calls[i].variant = calls[j].variant /\ Tier(calls[i]) <= Tier(calls[j]) =>
          calls[i].result.confidence >= calls[j].result.confidence

\* One hook answered a provider failure from its phrase table and another
\* provider failure with the marked passthrough
C22_Witness ==
  \E i, j \in 1..Len(calls) :
    /\ calls[i].variant = calls[j].variant
    /\ calls[i].out.kind \in FailureKinds /\ calls[j].out.kind \in FailureKinds
    /\ calls[i].result = Fallback(tHello, "en", "pt-BR")
    /\ calls[j].result = Fallback(tBonjour, "fr", "en")

\* C23: when the provider fails and the language pair has no phrase table,
\* translate returns the source text behind the upper-cased target tag in
\* square brackets ("[EN] bonjour" for ("bonjour", "fr", "en")) with a
\* confidence no tier undercuts, and the relay goes on to speak exactly that
\* text in the target language
C23_PassthroughSpoken ==
  [][LET Tag(l) == CASE l = "en" -> <<"[", "E", "N", "]", " ">>
                     [] l = "es" -> <<"[", "E", "S", "]", " ">>
                     [] l = "fr" -> <<"[", "F", "R", "]", " ">>
         NoTable(from, to) ==
           /\ from # to
           /\ <<from, to>> \notin {<<"en", "es">>, <<"en", "pt-BR">>, <<"es", "en">>}
     IN  /\ Fallback(tBonjour, "fr", "en") =
              TResult(Tag("en") \o tBonjour, "fr", "en", ConfFallback)
         /\ ConfFallback <= ConfPrimary /\ ConfFallback <= ConfIdentity
         /\ \A h \in 1..Len(hs), dt \in Millis :
              \A out \in {o \in RelayOutcomes : o.kind \in FailureKinds} :
                SDB_TranslateReturn(h, out, dt) /\ NoTable(hs[h].src, hs[h].tgt) =>
                  /\ hs'[h].pc = "tts"
                  /\ tts'.isPlaying
                  /\ hs'[h].request =
                       [text |-> Tag(hs[h].tgt) \o hs[h].text, language |-> hs[h].tgt]
                  /\ sdb'.translations[Len(sdb'.translations)].translatedText =
                       Tag(hs[h].tgt) \o hs[h].text]_vars

\* The relay is asking the synthesis provider for "[EN] Hello"
C23_Witness ==
  \E h \in 1..Len(hs) :
    /\ hs[h].pc = "tts"
    /\ hs[h].src = "fr" /\ hs[h].tgt = "en"
    /\ hs[h].request.text = <<"[", "E", "N", "]", " ">> \o tHello

\* C24: manual turn policy of SingleDeviceBridge: only switchDirection changes
\* currentDirection; once set up, no operation (arming, a final transcript, a
\* translation response, playback settling or ending, stop) changes
\* languageA or languageB; and every utterance is recorded as a_to_b exactly
\* when its source is languageA and its target languageB
C24_ManualTurnPolicy ==
  [][/\ sdb'.currentDirection # sdb.currentDirection => SDB_SwitchDirection
     /\ SdbMain =>
          sdb'.languageA = sdb.languageA /\ sdb'.languageB = sdb.languageB
     /\ \A i \in 1..Len(sdb'.translations) :
          LET t == sdb'.translations[i]
          IN  /\ t.direction \in {"a_to_b", "b_to_a"}
              /\ t.direction = "a_to_b" <=>
                   (t.sourceLanguage = sdb'.languageA /\ t.targetLanguage = sdb'.languageB)
              /\ t.direction = "b_to_a" <=>
                   (t.sourceLanguage = sdb'.languageB /\ t.targetLanguage = sdb'.languageA)]_vars

\* A full cycle in the second direction is over: the relay stopped itself
\* after speaking and the direction is still the one that was switched to
C24_Witness ==
  /\ ~sdb.isActive
  /\ sdb.currentDirection = "b_to_a"
  /\ Len(sdb.translations) = 1 /\ sdb.translations[1].direction = "b_to_a"
  /\ \E h \in 1..Len(hs) : hs[h].pc = "done" /\ hs[h].spoke /\ ~hs[h].ttsFailed

\* C25: the translation bridge can be started from the screen: while the
\* bridge is not active, the user has a way forward in the sequence grant
\* permissions, choose who is speaking, press Start Translation Bridge:
\* the speaker can be chosen or the Start button can be pressed
C25_BridgeCanBeStarted ==
  CbMain /\ ~cb.bridgeActive => CbSpeakerSelectionShown \/ ~CbStartButtonDisabled

\* C26: ConferenceBridge.requestAllPermissions sets permissionsGranted and
\* isSetupComplete only when requestPermissions granted microphone access;
\* when it resolves with false the component stays on the permissions screen
C26_SetupOnlyWhenGranted ==
  [][CB_RequestAllPermissions(FALSE) =>
       ~cb'.permissionsGranted /\ ~cb'.isSetupComplete]_vars

\* C27: after stopCallRecording has returned, every media stream acquired by
\* a startCallRecording that was invoked before it has all its tracks
\* stopped, also when startCallRecording ran more than once before the stop
\* and when the stop came while a start was awaiting getUserMedia
C27_MicrophoneReleased ==
  \A i \in 1..Len(phone.starts) :
    LET st == phone.starts[i]
    IN  st.stopSince /\ st.stream # 0 => phone.streams[st.stream].tracks = "stopped"

\* C28: isTranslating is true exactly in the states in which at least one
\* translate call is awaiting the provider, also when calls overlap and
\* finish in any order
C28_IsTranslatingWhilePending ==
  isTranslating <=> \E i \in 1..Len(calls) : calls[i].status = "pending"

\* C29: demo rate limit: on each day the demo screen has been entered at
\* most MAX_DAILY_DEMOS times, whatever the sequence of startDemo and
\* endDemo; canUseDemo answers allowed = false with remaining = 0 once
\* today's usage count has reached the maximum, and otherwise allowed = true
\* with remaining = maximum minus usage count
C29_DemoRateLimit ==
  LET todayUsage == demo.entered[demo.today]
  IN  /\ \A d \in 1..MaxDays : demo.entered[d] <= MAX_DAILY_DEMOS
      /\ demo.local.present => demo.local.usage = demo.entered
      /\ CanUseDemo(demo) =
           IF todayUsage >= MAX_DAILY_DEMOS
           THEN [allowed |-> FALSE, remaining |-> 0]
           ELSE [allowed |-> TRUE, remaining |-> MAX_DAILY_DEMOS - todayUsage]

\* The fourth attempt of a day was refused and the blocked screen is shown
C29_Witness ==
  /\ demo.entered[demo.today] = MAX_DAILY_DEMOS
  /\ demo.currentScreen = "blocked"
  /\ demo.demoLimitInfo = [allowed |-> FALSE, remaining |-> 0]

====
